---------------------------- MODULE Spec2Model ----------------------------
(***************************************************************************)
(* Track2Tabs: the browser script (public/script.js) and the /api/analyze  *)
(* relay handler.                                                          *)
(*                                                                         *)
(* Times (startSec, endSec, audioEl.currentTime) are JavaScript numbers;   *)
(* the model draws them from the integer grid 0..MaxTime, which keeps the  *)
(* order and the open/closed ends of the comparisons the code makes.       *)
(* Strings that the source writes with non-ASCII characters are written    *)
(* in ASCII here ("-" for the em dash, "..." for the ellipsis).            *)
(***************************************************************************)
EXTENDS Integers, Sequences, FiniteSets

\* ------------------------------------------------------------------ bounds
MaxTime == 3
MaxLen == 2
MaxUploads == 2
MaxRequests == 3

Times == 0..MaxTime
Labels == {"C", "N"}

\* ----------------------------------------------------------- script.js data
CHORD_IMAGE_BASE == "/chords/"

CHORD_IMAGE_MAP ==
  [l \in {"A", "Am", "Bm", "C", "C7", "D", "Dm", "D7", "E", "Em", "F", "G", "G7"} |->
     CASE l = "A"  -> "a-major-v1.png"
       [] l = "Am" -> "a-minor-v1.png"
       [] l = "Bm" -> "b-minor-v1.png"
       [] l = "C"  -> "c-major-v1.png"
       [] l = "C7" -> "c-7th-v1.png"
       [] l = "D"  -> "d-major-v1.png"
       [] l = "Dm" -> "d-minor-v1.png"
       [] l = "D7" -> "d-7th-v1.png"
       [] l = "E"  -> "e-major-v1.png"
       [] l = "Em" -> "e-minor-v1.png"
       [] l = "F"  -> "f-major-v1.png"
       [] l = "G"  -> "g-major-v1.png"
       [] l = "G7" -> "g-7th-v1.png"]

\* One chord segment as the backend returns it.
Interval == [startSec : Times, endSec : Times, label : Labels]

RECURSIVE SeqsUpTo(_, _)
SeqsUpTo(S, n) ==
  IF n = 0 THEN {<<>>}
  ELSE LET shorter == SeqsUpTo(S, n - 1)
       IN  shorter \cup {Append(s, x) : s \in {q \in shorter : Len(q) = n - 1}, x \in S}

\* Every value result.chords can take within the bounds: the script does not
\* validate what it receives.
Timelines == SeqsUpTo(Interval, MaxLen)

\* The data contract of the detection backend: positive-length intervals,
\* ordered by startSec, not overlapping.
IsWellFormed(chords) ==
  /\ \A i \in 1..Len(chords) : chords[i].startSec < chords[i].endSec
  /\ \A i \in 1..(Len(chords) - 1) :
       /\ chords[i].startSec <= chords[i + 1].startSec
       /\ chords[i].endSec <= chords[i + 1].startSec

ValidTimelines == {tl \in Timelines : IsWellFormed(tl)}

\* JavaScript null, as the argument of setCurrentChordDisplay.
null == [startSec |-> -1, endSec |-> -1, label |-> "null"]

\* A field a JSON object does not carry.
Absent == "<absent>"

\* A local that has not been assigned yet.
Unset == "<unset>"

\* ------------------------------------------------------------ script.js state
VARIABLES
  currentChords,        \* let currentChords
  lastAudioUrl,         \* let lastAudioUrl: 0 is null, u the object URL of upload u
  audioCurrentTime,     \* audioEl.currentTime
  currentChordSpan,     \* currentChordSpan.textContent
  chordImageContainer,  \* children of chordImageContainer
  statusDiv,            \* statusDiv.textContent
  summaryText,          \* summaryText.textContent
  chordsContainer,      \* chordsContainer: the number of <ul> lists it holds
  chordTagsDiv,         \* chordTagsDiv: the number of chord tags it holds
  downloadBtnDisabled,  \* downloadBtn.disabled
  pc,                   \* position of each handleFile invocation
  resultHasChords,      \* per handleFile invocation: whether result.chords is truthy
  reqs                  \* the relay's handler invocations

vars == <<currentChords, lastAudioUrl, audioCurrentTime, currentChordSpan,
          chordImageContainer, statusDiv, summaryText, chordsContainer, chordTagsDiv,
          downloadBtnDisabled, pc, resultHasChords, reqs>>

browserVars == <<currentChords, lastAudioUrl, audioCurrentTime, currentChordSpan,
                 chordImageContainer, statusDiv, summaryText, chordsContainer, chordTagsDiv,
                 downloadBtnDisabled, pc, resultHasChords>>

Uploads == 1..MaxUploads

NoChordText == "-"

\* ------------------------------------------------------- current chord display
\* renderChordImage(label): the children of chordImageContainer afterwards.
renderChordImage(label) ==
  IF label \in DOMAIN CHORD_IMAGE_MAP
    THEN <<[src |-> <<CHORD_IMAGE_BASE, CHORD_IMAGE_MAP[label]>>, alt |-> label]>>
    ELSE <<>>

\* The display update returning early on a missing chord, without clearing.
setCurrentChordDisplay_keepStale(chord) ==
  IF chord = null
    THEN [span |-> currentChordSpan, image |-> chordImageContainer]
    ELSE [span |-> chord.label, image |-> renderChordImage(chord.label)]

\* setCurrentChordDisplay(chord): the text of the span and the image afterwards.
setCurrentChordDisplay(chord) ==
  IF chord = null
    THEN [span |-> NoChordText, image |-> <<>>]
    ELSE [span |-> chord.label, image |-> renderChordImage(chord.label)]

\* -------------------------------------------------------------- chord lookup
\* The scan with the end bound made inclusive (t <= c.endSec).
RECURSIVE findFrom_inclusiveEnd(_, _, _)
findFrom_inclusiveEnd(chords, t, i) ==
  IF i > Len(chords) THEN 0
  ELSE IF t >= chords[i].startSec /\ t <= chords[i].endSec THEN i
  ELSE findFrom_inclusiveEnd(chords, t, i + 1)

\* Array.prototype.find with the predicate of getChordAtTime: the index of the
\* first element from position i on that contains t, 0 when there is none.
RECURSIVE findFrom(_, _, _)
findFrom(chords, t, i) ==
  IF i > Len(chords) THEN 0
  ELSE IF t >= chords[i].startSec /\ t < chords[i].endSec THEN i
  ELSE findFrom(chords, t, i + 1)

\* The lookup with the fallback taken from the front (currentChords.at(0)).
getChordIndexAtTime_fallbackFirst(chords, t) ==
  LET found == findFrom(chords, t, 1)
  IN  IF found # 0 THEN found
      ELSE IF Len(chords) > 0 THEN 1
      ELSE 0

\* The position in chords of the element getChordAtTime returns, 0 for null.
getChordIndexAtTime(chords, t) ==
  LET found == findFrom(chords, t, 1)
  IN  IF found # 0 THEN found
      ELSE IF Len(chords) > 0 THEN Len(chords)
      ELSE 0

getChordAtTime(chords, t) ==
  LET i == getChordIndexAtTime(chords, t)
  IN  IF i = 0 THEN null ELSE chords[i]

\* The handler resolving the chord at the position of the previous update.
ontimeupdate_previousPosition(t) ==
  LET shown == setCurrentChordDisplay(getChordAtTime(currentChords, audioCurrentTime))
  IN  /\ audioCurrentTime' = t
      /\ currentChordSpan' = shown.span
      /\ chordImageContainer' = shown.image
      /\ UNCHANGED <<currentChords, lastAudioUrl, statusDiv, summaryText,
                     chordsContainer, chordTagsDiv, downloadBtnDisabled, pc,
                     resultHasChords, reqs>>

\* audioEl.ontimeupdate, fired with the player at position t.
ontimeupdate(t) ==
  LET shown == setCurrentChordDisplay(getChordAtTime(currentChords, t))
  IN  /\ audioCurrentTime' = t
      /\ currentChordSpan' = shown.span
      /\ chordImageContainer' = shown.image
      /\ UNCHANGED <<currentChords, lastAudioUrl, statusDiv, summaryText,
                     chordsContainer, chordTagsDiv, downloadBtnDisabled, pc,
                     resultHasChords, reqs>>

\* ------------------------------------------------------ file handling, analysis
\* What `await res.json()` can hand to handleFile: the relay's JSON body, an
\* object carrying chords (status 200) or an error object.  A field is a sequence
\* holding its value, empty when the object does not carry the field.
ChordResults == {[chords |-> <<tl>>, error |-> Absent] : tl \in ValidTimelines}

ErrorObjects ==
  {[chords |-> <<>>, error |-> e] :
     e \in {"Missing audio data", "Python service failed", "Server error"}}

RelayResults == ChordResults \cup ErrorObjects

\* Whether result.chords is truthy (an array, even an empty one, is).
hasChords(result) == IF result.chords = <<>> THEN "no" ELSE "yes"

\* The fallback keeping the timeline in place (result.chords || currentChords).
chordsOrEmpty_keepCurrent(result) ==
  IF result.chords = <<>> THEN currentChords ELSE result.chords[1]

\* result.chords || []
chordsOrEmpty(result) ==
  IF result.chords = <<>> THEN <<>> ELSE result.chords[1]

\* The labels of chords, each once ([...new Set(chords.map(c => c.label))]).
unique(chords) == {chords[i].label : i \in 1..Len(chords)}

\* renderChordSummary(chords): the text of summaryText, and the number of tags in
\* chordTagsDiv (one is appended per unique label), afterwards.
renderChordSummary(chords) ==
  [summary |-> <<"This track uses", Cardinality(unique(chords)), "chords:">>,
   tags |-> chordTagsDiv + Cardinality(unique(chords))]

\* renderChords(chords): the number of lists in chordsContainer afterwards (one
\* <ul> holding a line per chord is appended).
renderChords(chords) == chordsContainer + 1

Pending == {"arrayBuffer", "fetch", "json"}

\* handleFile(file) up to its first await: invocation u resets the state and the
\* display, loads the file into the player and starts reading the file.
handleFile(u) ==
  /\ pc[u] = "idle"
  /\ \A v \in Uploads : v < u => pc[v] # "idle"
  /\ statusDiv' = "Analyzing chords..."
  /\ currentChords' = <<>>
  /\ currentChordSpan' = setCurrentChordDisplay(null).span
  /\ chordImageContainer' = setCurrentChordDisplay(null).image
  /\ chordsContainer' = 0
  /\ chordTagsDiv' = 0
  /\ summaryText' = <<>>
  /\ downloadBtnDisabled' = TRUE
  /\ lastAudioUrl' = u
  /\ audioCurrentTime' = 0
  /\ pc' = [pc EXCEPT ![u] = "arrayBuffer"]
  /\ UNCHANGED <<resultHasChords, reqs>>

\* file.arrayBuffer() resolves: the request to API_URL is sent.
handleFile_arrayBuffer(u) ==
  /\ pc[u] = "arrayBuffer"
  /\ pc' = [pc EXCEPT ![u] = "fetch"]
  /\ UNCHANGED <<currentChords, lastAudioUrl, audioCurrentTime, currentChordSpan,
                 chordImageContainer, statusDiv, summaryText, chordsContainer,
                 chordTagsDiv, downloadBtnDisabled, resultHasChords, reqs>>

\* fetch(API_URL, ...) resolves with the relay's response.
handleFile_fetch(u) ==
  /\ pc[u] = "fetch"
  /\ pc' = [pc EXCEPT ![u] = "json"]
  /\ UNCHANGED <<currentChords, lastAudioUrl, audioCurrentTime, currentChordSpan,
                 chordImageContainer, statusDiv, summaryText, chordsContainer,
                 chordTagsDiv, downloadBtnDisabled, resultHasChords, reqs>>

\* res.json() resolves with result: the rest of handleFile runs.
handleFile_json(u, result) ==
  /\ pc[u] = "json"
  /\ currentChords' = chordsOrEmpty(result)
  /\ chordsContainer' = renderChords(chordsOrEmpty(result))
  /\ summaryText' = renderChordSummary(chordsOrEmpty(result)).summary
  /\ chordTagsDiv' = renderChordSummary(chordsOrEmpty(result)).tags
  /\ statusDiv' = "Chords detected."
  /\ downloadBtnDisabled' = FALSE
  /\ pc' = [pc EXCEPT ![u] = "done"]
  /\ resultHasChords' = [resultHasChords EXCEPT ![u] = hasChords(result)]
  /\ UNCHANGED <<lastAudioUrl, audioCurrentTime, currentChordSpan,
                 chordImageContainer, reqs>>

\* An awaited promise rejects (the file cannot be read, the network fails, the
\* body is not JSON) or result is null: handleFile ends there, nothing else runs.
handleFile_reject(u) ==
  /\ pc[u] \in Pending
  /\ pc' = [pc EXCEPT ![u] = "rejected"]
  /\ UNCHANGED <<currentChords, lastAudioUrl, audioCurrentTime, currentChordSpan,
                 chordImageContainer, statusDiv, summaryText, chordsContainer,
                 chordTagsDiv, downloadBtnDisabled, resultHasChords, reqs>>

\* ------------------------------------------------------------- relay handler
Requests == 1..MaxRequests

Methods == {"GET", "POST"}

\* A value of data that is truthy and not a string (the JSON number 5).
NonString == "<number 5>"

\* req.body as the body parser leaves it: JSON null, or an object.
NullBody == [isNull |-> TRUE, filename |-> Absent, mimetype |-> Absent, data |-> Absent]

Bodies ==
  { NullBody,
    [isNull |-> FALSE, filename |-> Absent,  mimetype |-> Absent,       data |-> Absent],
    [isNull |-> FALSE, filename |-> "a.mp3", mimetype |-> "audio/mpeg", data |-> ""],
    [isNull |-> FALSE, filename |-> "a.mp3", mimetype |-> "audio/mpeg", data |-> NonString],
    [isNull |-> FALSE, filename |-> Absent,  mimetype |-> Absent,       data |-> "QUJD"],
    [isNull |-> FALSE, filename |-> "a.mp3", mimetype |-> "audio/mpeg", data |-> "QUJD"] }

\* Bodies the backend can answer with: the text of a non-success answer, the JSON
\* of a success answer.
BackendTexts == {"", "Internal Server Error"}

BackendJson ==
  { [chords |-> <<>>],
    [chords |-> <<[startSec |-> 0, endSec |-> 1, label |-> "C"]>>] }

\* A handler invocation that has not been called yet.
IdleRequest ==
  [pc |-> "idle", method |-> "GET", body |-> NullBody,
   formData |-> <<>>,          \* the multipart payload built for the backend
   backendCalls |-> 0,         \* how many times fetch(backend) was called
   pythonResponse |-> "unset", \* outcome of the awaited fetch: ok, not ok, rejected
   upstreamText |-> Absent,    \* the text the backend answered with
   upstreamJson |-> <<>>,      \* the JSON the backend answered with
   malformed |-> FALSE,        \* the backend's success answer was not JSON
   sent |-> <<>>]              \* the responses written to res

\* res.status(status).json(body), then return.
respond(req, status, error, details, result) ==
  [req EXCEPT !.pc = "done",
              !.sent = Append(@, [status |-> status, error |-> error,
                                  details |-> details, result |-> result])]

\* The catch block answering without the details field.
catchError_noDetails(req, message) ==
  respond(req, 500, "Server error", Absent, <<>>)

\* The catch block of handler.
catchError(req, message) ==
  respond(req, 500, "Server error", message, <<>>)

\* x || fallback for an optional string.
orDefault(x, fallback) ==
  IF x = Absent \/ x = "" THEN fallback ELSE x

\* The entry with the payload check reduced to data === undefined: an empty
\* string is decoded and forwarded.
handlerEntry_undefinedOnly(req) ==
  IF req.method # "POST"
    THEN respond(req, 405, "Method not allowed", Absent, <<>>)
  ELSE IF req.body.isNull
    THEN catchError(req, "Cannot destructure property 'filename' of 'req.body' as it is null.")
  ELSE IF req.body.data = Absent
    THEN respond(req, 400, "Missing audio data", Absent, <<>>)
  ELSE IF req.body.data = NonString
    THEN catchError(req, "The first argument must be of type string")
  ELSE [req EXCEPT !.pc = "fetch",
                   !.formData = <<[name |-> "file",
                                   filename |-> orDefault(req.body.filename, "audio.wav"),
                                   type |-> orDefault(req.body.mimetype, "audio/wav"),
                                   base64 |-> req.body.data]>>,
                   !.backendCalls = @ + 1]

\* handler(req, res) from its call to its first await or return.
handlerEntry(req) ==
  IF req.method # "POST"
    THEN respond(req, 405, "Method not allowed", Absent, <<>>)
  ELSE IF req.body.isNull
    THEN catchError(req, "Cannot destructure property 'filename' of 'req.body' as it is null.")
  ELSE IF req.body.data = Absent \/ req.body.data = ""
    THEN respond(req, 400, "Missing audio data", Absent, <<>>)
  ELSE IF req.body.data = NonString
    THEN catchError(req, "The first argument must be of type string")
  ELSE [req EXCEPT !.pc = "fetch",
                   !.formData = <<[name |-> "file",
                                   filename |-> orDefault(req.body.filename, "audio.wav"),
                                   type |-> orDefault(req.body.mimetype, "audio/wav"),
                                   base64 |-> req.body.data]>>,
                   !.backendCalls = @ + 1]

handler(r, method, body) ==
  /\ reqs[r].pc = "idle"
  /\ \A q \in Requests : q < r => reqs[q].pc # "idle"
  /\ reqs' = [reqs EXCEPT ![r] = handlerEntry([@ EXCEPT !.method = method, !.body = body])]
  /\ UNCHANGED browserVars

\* The awaited fetch resolves: the backend answered, with a success status or not.
handler_fetch(r, ok) ==
  /\ reqs[r].pc = "fetch"
  /\ reqs' = [reqs EXCEPT ![r] =
                [@ EXCEPT !.pythonResponse = IF ok THEN "ok" ELSE "not ok",
                          !.pc = IF ok THEN "json" ELSE "text"]]
  /\ UNCHANGED browserVars

\* The awaited fetch rejects: the backend is unreachable.
handler_fetch_reject(r) ==
  /\ reqs[r].pc = "fetch"
  /\ reqs' = [reqs EXCEPT ![r] =
                catchError([@ EXCEPT !.pythonResponse = "rejected"], "fetch failed")]
  /\ UNCHANGED browserVars

\* The non-success branch answering with a fixed details text.
handler_text_fixedDetails(r, text) ==
  /\ reqs[r].pc = "text"
  /\ reqs' = [reqs EXCEPT ![r] =
                respond([@ EXCEPT !.upstreamText = text],
                        500, "Python service failed", "Internal Server Error", <<>>)]
  /\ UNCHANGED browserVars

\* pythonResponse.text() resolves with the text of the non-success answer.
handler_text(r, text) ==
  /\ reqs[r].pc = "text"
  /\ reqs' = [reqs EXCEPT ![r] =
                respond([@ EXCEPT !.upstreamText = text],
                        500, "Python service failed", text, <<>>)]
  /\ UNCHANGED browserVars

\* pythonResponse.text() rejects: the answer's body could not be read.
handler_text_reject(r) ==
  /\ reqs[r].pc = "text"
  /\ reqs' = [reqs EXCEPT ![r] = catchError(@, "terminated")]
  /\ UNCHANGED browserVars

\* pythonResponse.json() resolves with the parsed answer.
handler_json(r, result) ==
  /\ reqs[r].pc = "json"
  /\ reqs' = [reqs EXCEPT ![r] =
                respond([@ EXCEPT !.upstreamJson = <<result>>],
                        200, Absent, Absent, <<result>>)]
  /\ UNCHANGED browserVars

\* pythonResponse.json() rejects: the success answer is not JSON.
handler_json_reject(r) ==
  /\ reqs[r].pc = "json"
  /\ reqs' = [reqs EXCEPT ![r] =
                catchError([@ EXCEPT !.malformed = TRUE],
                           "Unexpected token < in JSON at position 0")]
  /\ UNCHANGED browserVars

\* ------------------------------------------------------------ specifications
\* The page as loaded and the relay with no request yet.  The initial state of
\* the download button comes from the page's markup.
Init ==
  /\ currentChords = <<>>
  /\ lastAudioUrl = 0
  /\ audioCurrentTime = 0
  /\ currentChordSpan = NoChordText
  /\ chordImageContainer = <<>>
  /\ statusDiv = ""
  /\ summaryText = <<>>
  /\ chordsContainer = 0
  /\ chordTagsDiv = 0
  /\ downloadBtnDisabled \in BOOLEAN
  /\ pc = [u \in Uploads |-> "idle"]
  /\ resultHasChords = [u \in Uploads |-> Unset]
  /\ reqs = [r \in Requests |-> IdleRequest]

\* The browser: uploads and playback.
Next ==
  \/ \E u \in Uploads : handleFile(u)
  \/ \E u \in Uploads : handleFile_arrayBuffer(u)
  \/ \E u \in Uploads : handleFile_fetch(u)
  \/ \E u \in Uploads, result \in RelayResults : handleFile_json(u, result)
  \/ \E u \in Uploads : handleFile_reject(u)
  \/ \E t \in Times : ontimeupdate(t)

Spec == Init /\ [][Next]_vars

\* Playback over any timeline an upload can have left in currentChords.
InitLookup ==
  /\ currentChords \in Timelines
  /\ lastAudioUrl = 1
  /\ audioCurrentTime = 0
  /\ currentChordSpan = NoChordText
  /\ chordImageContainer = <<>>
  /\ statusDiv = "Chords detected."
  /\ summaryText = <<"This track uses", Cardinality(unique(currentChords)), "chords:">>
  /\ chordsContainer = 1
  /\ chordTagsDiv = Cardinality(unique(currentChords))
  /\ downloadBtnDisabled = FALSE
  /\ pc = [u \in Uploads |-> IF u = 1 THEN "done" ELSE "idle"]
  /\ resultHasChords = [u \in Uploads |-> IF u = 1 THEN "yes" ELSE Unset]
  /\ reqs = [r \in Requests |-> IdleRequest]

NextLookup == \E t \in Times : ontimeupdate(t)

SpecLookup == InitLookup /\ [][NextLookup]_vars

\* The relay: requests from any caller.
NextRelay ==
  \/ \E r \in Requests, method \in Methods, body \in Bodies : handler(r, method, body)
  \/ \E r \in Requests, ok \in BOOLEAN : handler_fetch(r, ok)
  \/ \E r \in Requests : handler_fetch_reject(r)
  \/ \E r \in Requests, text \in BackendTexts : handler_text(r, text)
  \/ \E r \in Requests : handler_text_reject(r)
  \/ \E r \in Requests, result \in BackendJson : handler_json(r, result)
  \/ \E r \in Requests : handler_json_reject(r)

SpecRelay == Init /\ [][NextRelay]_vars

\* ------------------------------------------------------------------- lookup
Contains(c, t) == t >= c.startSec /\ t < c.endSec

\* Ordered by startSec, no interval reaching into the next.
SortedNonOverlapping(chords) ==
  \A i \in 1..(Len(chords) - 1) :
    /\ chords[i].startSec <= chords[i + 1].startSec
    /\ chords[i].endSec <= chords[i + 1].startSec

\* C1: on a non-empty timeline that is sorted by startSec and non-overlapping, for
\* every interval i and every t with i.startSec <= t < i.endSec, getChordAtTime(t)
\* returns that very interval (start inclusive, end exclusive).
C1_ContainingIntervalReturned ==
  (currentChords # <<>> /\ SortedNonOverlapping(currentChords)) =>
    \A i \in 1..Len(currentChords), t \in Times :
      Contains(currentChords[i], t) =>
        /\ getChordIndexAtTime(currentChords, t) = i
        /\ getChordAtTime(currentChords, t) = currentChords[i]

\* The player stands on the shared bound of two adjacent intervals and the display
\* shows the second one.
C1_Witness ==
  /\ Len(currentChords) = 2
  /\ SortedNonOverlapping(currentChords)
  /\ currentChords[1].startSec < currentChords[1].endSec
  /\ currentChords[1].endSec = currentChords[2].startSec
  /\ Contains(currentChords[2], audioCurrentTime)
  /\ audioCurrentTime = currentChords[1].endSec
  /\ currentChords[1].label # currentChords[2].label
  /\ currentChordSpan = currentChords[2].label

\* C2: on a non-empty timeline, for every t that no interval contains (past the
\* end, in a gap, before the first start), getChordAtTime(t) returns the last
\* interval of the sequence.
C2_FallbackToLast ==
  currentChords # <<>> =>
    \A t \in Times :
      (\A i \in 1..Len(currentChords) : ~Contains(currentChords[i], t)) =>
        /\ getChordIndexAtTime(currentChords, t) = Len(currentChords)
        /\ getChordAtTime(currentChords, t) = currentChords[Len(currentChords)]

\* The player stands in the gap between two intervals and the display shows the
\* last one.
C2_Witness ==
  /\ Len(currentChords) = 2
  /\ currentChords[1].startSec < currentChords[1].endSec
  /\ currentChords[2].startSec < currentChords[2].endSec
  /\ currentChords[1].endSec <= audioCurrentTime
  /\ audioCurrentTime < currentChords[2].startSec
  /\ currentChords[1].label # currentChords[2].label
  /\ currentChordSpan = currentChords[2].label

\* ------------------------------------------------------------------ playback
TimeUpdate == \E t \in Times : ontimeupdate(t)

LabelShownFor(chord) == IF chord = null THEN NoChordText ELSE chord.label

\* C3: whenever the current timeline is empty, getChordAtTime(t) is null for every
\* t, and every time update then puts the display in the "no chord" state: the
\* placeholder in the label, no chord image.
C3_EmptyTimelineShowsNoChord ==
  /\ [](currentChords = <<>> => \A t \in Times : getChordAtTime(currentChords, t) = null)
  /\ [][(currentChords = <<>> /\ TimeUpdate) =>
          (currentChordSpan' = NoChordText /\ chordImageContainer' = <<>>)]_vars

\* A time update past position 0 has run on the empty timeline an upload left.
C3_Witness ==
  /\ currentChords = <<>>
  /\ \E u \in Uploads : pc[u] = "done"
  /\ audioCurrentTime > 0
  /\ currentChordSpan = NoChordText
  /\ chordImageContainer = <<>>

\* C5: after every time update the displayed label is the label of
\* getChordAtTime(current timeline, current position), whatever the positions
\* before it were, and the time update leaves the timeline unchanged.
C5_DisplayFollowsPosition ==
  [][TimeUpdate =>
       /\ currentChordSpan' = LabelShownFor(getChordAtTime(currentChords', audioCurrentTime'))
       /\ currentChords' = currentChords]_vars

\* The display shows the first of two differently labelled intervals: a time
\* update has resolved a position inside it.
C5_Witness ==
  /\ Len(currentChords) = 2
  /\ currentChords[1].label # currentChords[2].label
  /\ Contains(currentChords[1], audioCurrentTime)
  /\ currentChordSpan = currentChords[1].label

\* ------------------------------------------------------------------- uploads
Started == {u \in Uploads : pc[u] # "idle"}

\* The most recently started upload, 0 when there is none.
LatestStarted == IF Started = {} THEN 0 ELSE CHOOSE u \in Started : \A v \in Started : v <= u

NoUploadPending == \A u \in Uploads : pc[u] \notin Pending

\* C4: the result of an upload is applied to the current timeline only if that
\* upload is the most recently started one; the response of a superseded upload
\* never overwrites currentChords.
C4_OnlyLatestUploadApplied ==
  [][\A u \in Uploads :
       (pc[u] = "json" /\ pc'[u] = "done" /\ u # LatestStarted) =>
         currentChords' = currentChords]_vars

\* C9: in every state in which at least one upload is in flight, the current
\* timeline is empty and the download button is disabled.
C9_InFlightMeansReset ==
  (\E u \in Uploads : pc[u] \in Pending) =>
    (currentChords = <<>> /\ downloadBtnDisabled)

\* C10: when the relay's response to an upload is an error object, the current
\* timeline is empty once handleFile has completed, and from an empty timeline
\* with no upload pending, as long as none is started, the timeline stays empty
\* and every time update shows "no chord".
C10_FailedUploadLeavesNothing ==
  [][/\ \A u \in Uploads :
          (pc[u] = "json" /\ pc'[u] = "done" /\ resultHasChords'[u] = "no") =>
            currentChords' = <<>>
     /\ (currentChords = <<>> /\ NoUploadPending /\ NoUploadPending') =>
          /\ currentChords' = <<>>
          /\ TimeUpdate => currentChordSpan' = NoChordText]_vars

\* After an upload that succeeded, the latest upload got an error object, nothing
\* is pending, and a time update past position 0 has shown "no chord".
C10_Witness ==
  /\ NoUploadPending
  /\ LatestStarted # 0
  /\ pc[LatestStarted] = "done"
  /\ resultHasChords[LatestStarted] = "no"
  /\ \E v \in Uploads : v < LatestStarted /\ pc[v] = "done" /\ resultHasChords[v] = "yes"
  /\ currentChords = <<>>
  /\ audioCurrentTime > 0
  /\ currentChordSpan = NoChordText

\* --------------------------------------------------------------------- relay
Called == {r \in Requests : reqs[r].pc # "idle"}

\* The request fails input validation: a method other than POST, or a body object
\* whose data is missing or empty.
FailsValidation(req) ==
  \/ req.method # "POST"
  \/ (~req.body.isNull /\ (req.body.data = Absent \/ req.body.data = ""))

\* The request passes every check made before the backend is contacted.
IsValidRequest(req) ==
  /\ req.method = "POST"
  /\ ~req.body.isNull
  /\ req.body.data \notin {Absent, "", NonString}

C7_UpstreamDetailsUnmodified ==
  \A r \in Called :
    (reqs[r].pythonResponse = "not ok" /\ reqs[r].pc = "done") =>
      /\ Len(reqs[r].sent) = 1
      /\ reqs[r].sent[1].status = 500
      /\ reqs[r].sent[1].error # Absent
      /\ reqs[r].upstreamText # Absent => reqs[r].sent[1].details = reqs[r].upstreamText

\* Two non-success answers with different texts were both passed on.
C7_Witness ==
  \E r, q \in Called :
    /\ reqs[r].pythonResponse = "not ok" /\ reqs[q].pythonResponse = "not ok"
    /\ reqs[r].pc = "done" /\ reqs[q].pc = "done"
    /\ reqs[r].upstreamText = "" /\ reqs[q].upstreamText = "Internal Server Error"
    /\ reqs[r].sent[1].details = "" /\ reqs[q].sent[1].details = "Internal Server Error"

Unreachable(req) == req.pythonResponse = "rejected"

NonSuccess(req) == req.pythonResponse = "not ok"

MalformedPayload(req) == req.pythonResponse = "ok" /\ req.malformed

\* C8: for every valid request, in each upstream failure mode (backend unreachable,
\* non-success status, malformed payload) the handler sends exactly one response,
\* with status 500 and a body carrying error and details, and the backend is
\* contacted at most once.
C8_UpstreamFailureUniform ==
  \A r \in Called :
    IsValidRequest(reqs[r]) =>
      /\ reqs[r].backendCalls <= 1
      /\ Len(reqs[r].sent) <= 1
      /\ (reqs[r].pc = "done" /\
          (Unreachable(reqs[r]) \/ NonSuccess(reqs[r]) \/ MalformedPayload(reqs[r]))) =>
           /\ Len(reqs[r].sent) = 1
           /\ reqs[r].sent[1].status = 500
           /\ reqs[r].sent[1].error # Absent
           /\ reqs[r].sent[1].details # Absent

\* Every request has been answered, and among them each failure mode occurred.
C8_Witness ==
  /\ \A r \in Requests : reqs[r].pc = "done"
  /\ \E r \in Requests : Unreachable(reqs[r])
  /\ \E r \in Requests : NonSuccess(reqs[r])
  /\ \E r \in Requests : MalformedPayload(reqs[r])

=============================================================================
